---------------------------- MODULE Spec2Model ----------------------------
(***************************************************************************)
(* Model of the media-asset registry: the FastAPI router of src/main.py    *)
(* (GET / POST / PATCH / DELETE under /media, guarded by is_authenticated) *)
(* over the Pony ORM entity MediaAsset of src/models.py.                   *)
(*                                                                         *)
(* Values.  Python strings, datetimes and booleans are TLA+ strings        *)
(* (True/False are "True"/"False"), Python None is the token None, an      *)
(* Optional[MediaModel] is a set holding at most one record, and a raw     *)
(* JSON object is a record whose domain is the set of keys the caller      *)
(* supplied.                                                               *)
(***************************************************************************)
EXTENDS Integers, Sequences, FiniteSets, TLC

VARIABLES
    API_KEY,    \* os.environ's API_KEY: a string, or None when unset
    store,      \* committed rows of the mediaasset table
    nextId,     \* next value of the table's id sequence
    pc,         \* per client: "idle", or the handler position
    req,        \* per client: the request being (or last) handled
    idx,        \* per client: loop position in the request's list
    session,    \* per client: objects held by the open db_session
    resp        \* per client: the last response sent

vars == <<API_KEY, store, nextId, pc, req, idx, session, resp>>

None == "None"

----------------------------------------------------------------------------
(* Bounds of the model *)

MaxBatch == 2
MaxId == 3
MaxConcBatch == 1

Clients == {1, 2}
Gtins == {"g1", "g2"}
\* Readings of datetime.now(): one clock reading for the whole run
Times == {"t1"}
\* X-API-Key header: absent, empty, the configured key, another key
Keys == {None, "", "k1", "k2"}
\* API_KEY in the environment: unset or set
EnvKeys == {None, "k1"}

----------------------------------------------------------------------------
(* Request/response contract layer (pydantic models of src/main.py) *)

ContentTypes == {"image/tiff", "image/png", "image/jpeg", "image/gif", "image/bmp"}
MediaTypes == {"MainImage", "AuxiliaryImage", "AdditionalImage", "SwatchImage"}
Statuses == {"ML010New", "ML030Imported", "ML060QaPending", "ML070QaApproved",
             "ML090Retired", "ML099Error"}
ResolutionKeys == {"ORIGINAL", "X240", "X1024", "X2048"}

MediaModelFields == <<"payload", "sourceUrl", "sourceUrlValidUntil">>
QueryFields == {"gtin", "channel", "mediaId", "contentType", "mediaType",
                "resolutionKey"}
BaseRequired == {"gtin", "channel", "mediaId", "contentType", "hasCopyright"}
BaseOptional == {"mediaType", "description", "brand", "category", "status",
                 "resolutionKey", "resolutionInPx"}
BaseFields == BaseRequired \cup BaseOptional
DeleteFields == {"channel", "gtin", "mediaId", "contentType"}

\* Python truthiness of an Optional[str]
Truthy(v) == v # None /\ v # ""

\* pydantic: a field the caller did not supply is None
Field(raw, f) == IF f \in DOMAIN raw THEN raw[f] ELSE None

\* The Literal[...] constraints of a model's fields
LiteralOK(f, v) ==
    CASE f = "contentType"   -> v \in ContentTypes
      [] f = "mediaType"     -> v \in MediaTypes
      [] f = "status"        -> v \in Statuses
      [] f = "resolutionKey" -> v \in ResolutionKeys
      [] OTHER               -> TRUE

\* @validator('payload'): value is the payload, values the fields validated
\* before it.  TRUE when the validator raises.
validate_payload(value, values) ==
    /\ Truthy(value)
    /\ \/ Truthy(Field(values, "sourceUrl"))
       \/ Truthy(Field(values, "sourceUrlValidUntil"))

\* pydantic validates the fields in declaration order; a field's validator
\* sees in `values` only the fields declared before it.
RECURSIVE MediaModelRaises(_, _, _)
MediaModelRaises(raw, k, values) ==
    IF k > Len(MediaModelFields) THEN FALSE
    ELSE LET f == MediaModelFields[k]
             v == Field(raw, f)
         IN  \/ (f = "payload" /\ f \in DOMAIN raw /\ v # None
                   /\ validate_payload(v, values))
             \/ MediaModelRaises(raw, k + 1, values @@ (f :> v))

Empty == [x \in {} |-> None]

MediaModel(raw) == [k \in {"payload", "sourceUrl", "sourceUrlValidUntil"}
                        |-> Field(raw, k)]

\* BaseMediaAssetModel: required fields present, literals respected
BaseValid(raw) ==
    /\ \A f \in BaseRequired : f \in DOMAIN raw /\ raw[f] # None
    /\ \A f \in (DOMAIN raw) \cap BaseFields :
          raw[f] = None \/ LiteralOK(f, raw[f])

BaseModel(raw) == [f \in BaseFields |-> Field(raw, f)]

\* MediaAssetCreateModel = base fields + media: Optional[MediaModel] = None
CreateValid(raw) ==
    /\ BaseValid(raw)
    /\ "media" \in DOMAIN raw => ~MediaModelRaises(raw.media, 1, Empty)

MediaAssetCreateModel(raw) ==
    [base |-> BaseModel(raw),
     media |-> IF "media" \in DOMAIN raw THEN {MediaModel(raw.media)} ELSE {}]

\* MediaAssetResponseModel: the base fields only
MediaAssetResponseModel(obj) == [f \in BaseFields |-> obj[f]]

\* MediaAssetQueryModel / MediaAssetDeleteModel: every field optional
QueryValid(raw) ==
    \A f \in DOMAIN raw : raw[f] = None \/ LiteralOK(f, raw[f])

MediaAssetQueryModel(raw) == [f \in QueryFields |-> Field(raw, f)]
MediaAssetDeleteModel(raw) == [f \in DeleteFields |-> Field(raw, f)]

\* .dict(): every field, None included
Dict(m) == m

\* Variant: exclude_none=True left out, as in delete_media_asset
ExcludeNothing(m) == m

\* .dict(exclude_none=True)
ExcludeNone(m) == [f \in {g \in DOMAIN m : m[g] # None} |-> m[f]]


----------------------------------------------------------------------------
(* Persistence layer: the MediaAsset entity of src/models.py under Pony *)

RequiredStr == {"gtin", "channel", "mediaId", "status", "resolutionKey",
                "resolutionInPx"}
RequiredNow == {"licenseValidFrom", "licenseValidUntil"}
OptionalStr == {"contentType", "mediaType", "description", "brand", "category",
                "sourceUrl"}
Nullable == {"hasCopyright", "media", "sizeInBytes", "sourceUrlValidFrom",
             "sourceUrlValidUntil"}
EntityAttrs == RequiredStr \cup RequiredNow \cup OptionalStr \cup Nullable

\* Attribute.validate: TRUE when the value is refused (ValueError).
\* Required refuses None and ''; Optional(str) is not nullable and refuses
\* None; the other Optional attributes accept None.
AttrRaises(a, v) ==
    \/ v = None /\ a \notin Nullable
    \/ v = "" /\ a \in RequiredStr

KwargsRaise(kwargs) == \E a \in DOMAIN kwargs : AttrRaises(a, kwargs[a])

\* Value of an attribute the constructor was not given
Default(a, now) ==
    CASE a \in RequiredNow -> now          \* default=datetime.now
      [] a \in OptionalStr -> ""
      [] OTHER             -> None

\* Variant: gtin declared without unique=True
UniqueNotEnforced(rows, gtin) == FALSE

\* gtin = Required(str, unique=True): the key is already taken among rows
UniqueTaken(rows, gtin) == \E r \in rows : r.gtin = gtin

\* MediaAsset(**data): the new object (no id before it is inserted)
MediaAsset(data, now) ==
    [a \in EntityAttrs |-> IF a \in DOMAIN data THEN data[a] ELSE Default(a, now)]

\* Variant: the object is replaced by the keywords instead of updated
EntitySetReplaces(obj, kwargs) ==
    [a \in DOMAIN obj |->
        IF a \in DOMAIN kwargs THEN kwargs[a]
        ELSE IF a \in {"id"} \cup RequiredNow THEN obj[a]
        ELSE None]

\* obj.set(**kwargs)
EntitySet(obj, kwargs) ==
    [a \in DOMAIN obj |-> IF a \in DOMAIN kwargs THEN kwargs[a] ELSE obj[a]]

\* Rows equal to kwargs on every keyword (SQL equality, AND-combined)
Matching(rows, kwargs) ==
    {r \in rows : \A a \in DOMAIN kwargs : r[a] = kwargs[a]}

\* MediaAsset.select(**kwargs) on the committed table
Select(kwargs) == Matching(store, kwargs)

\* Objects of a session that are alive, as the session sees them
Live(s) == {s[k].obj : k \in {j \in DOMAIN s : s[j].st # "deleted"}}

\* Position in the session of the live object with this gtin, 0 if none
CachedAt(s, gtin) ==
    IF \E k \in DOMAIN s : s[k].st # "deleted" /\ s[k].obj.gtin = gtin
    THEN CHOOSE k \in DOMAIN s : s[k].st # "deleted" /\ s[k].obj.gtin = gtin
    ELSE 0

\* Flush at commit: the session's INSERT / UPDATE / DELETE statements in
\* order against the table.  An INSERT draws its id from the sequence
\* before the unique index is checked; UPDATE and DELETE address the row
\* by id with Pony's optimistic check on the values read.
RECURSIVE Flush(_, _, _, _)
Flush(tbl, nid, s, k) ==
    IF k > Len(s) THEN [ok |-> TRUE, tbl |-> tbl, nid |-> nid]
    ELSE LET e == s[k] IN
      CASE e.st = "created" ->
             IF UniqueTaken(tbl, e.obj.gtin)
             THEN [ok |-> FALSE, tbl |-> tbl, nid |-> nid + 1]
             ELSE Flush(tbl \cup {e.obj @@ ("id" :> nid)}, nid + 1, s, k + 1)
        [] e.st = "loaded" ->
             IF e.obj = e.orig THEN Flush(tbl, nid, s, k + 1)
             ELSE IF e.orig \in tbl
                     /\ ~UniqueTaken(tbl \ {e.orig}, e.obj.gtin)
                  THEN Flush((tbl \ {e.orig}) \cup {e.obj}, nid, s, k + 1)
                  ELSE [ok |-> FALSE, tbl |-> tbl, nid |-> nid]
        [] OTHER ->
             IF e.orig \in tbl
             THEN Flush(tbl \ {e.orig}, nid, s, k + 1)
             ELSE [ok |-> FALSE, tbl |-> tbl, nid |-> nid]

----------------------------------------------------------------------------
(* Authentication gate *)

\* os.environ.get('API_KEY', '')
EnvGet(env) == IF env = None THEN "" ELSE env

\* Variant: the comparison with the configured key is lost
is_authenticated_any_key(header, env) ==
    IF ~Truthy(header) THEN 403 ELSE 0

\* X_API_KEY = APIKeyHeader(name='X-API-Key'), is_authenticated:
\* 0 when the request may proceed, else the status of the rejection.  The
\* header scheme itself refuses a missing or empty header (403 Not
\* authenticated); is_authenticated refuses a differing key (401).
is_authenticated(header, env) ==
    IF ~Truthy(header) THEN 403
    ELSE IF header # EnvGet(env) THEN 401
    ELSE 0

----------------------------------------------------------------------------
(* HTTP API surface *)

NoReq == [method |-> None, key |-> None, body |-> <<>>]
NoResp == [status |-> 0, body |-> <<>>]

Response(st, b) == [status |-> st, body |-> b]

Init ==
    /\ API_KEY \in EnvKeys
    /\ store = {}
    /\ nextId = 1
    /\ pc = [c \in Clients |-> "idle"]
    /\ req = [c \in Clients |-> NoReq]
    /\ idx = [c \in Clients |-> 0]
    /\ session = [c \in Clients |-> <<>>]
    /\ resp = [c \in Clients |-> NoResp]

\* A request the gate refuses: no handler runs
Unauthorized(c, methods) ==
    /\ pc[c] = "idle"
    /\ \E m \in methods, key \in Keys :
         /\ is_authenticated(key, API_KEY) # 0
         /\ req' = [req EXCEPT ![c] = [method |-> m, key |-> key, body |-> <<>>]]
         /\ resp' = [resp EXCEPT ![c] =
                        Response(is_authenticated(key, API_KEY), <<>>)]
    /\ pc' = [pc EXCEPT ![c] = "done"]
    /\ UNCHANGED <<API_KEY, store, nextId, idx, session>>

\* GET /media/
get_media_assets(c, queries) ==
    /\ pc[c] = "idle"
    /\ \E key \in Keys, raw \in queries :
         /\ is_authenticated(key, API_KEY) = 0
         /\ req' = [req EXCEPT ![c] = [method |-> "GET", key |-> key, body |-> raw]]
         /\ resp' = [resp EXCEPT ![c] =
              IF ~QueryValid(raw) THEN Response(422, <<>>)
              ELSE LET params == MediaAssetQueryModel(raw)
                       media_assets == Select(ExcludeNone(params))
                   IN  Response(200, {MediaAssetResponseModel(r) : r \in media_assets})]
    /\ pc' = [pc EXCEPT ![c] = "done"]
    /\ UNCHANGED <<API_KEY, store, nextId, idx, session>>

\* json.dumps(data['media'], default=str)
JsonStr(v) == IF v = None THEN "null" ELSE "\"" \o v \o "\""

Dumps(media) ==
    IF media = {} THEN "null"
    ELSE LET m == CHOOSE x \in media : TRUE
         IN  "{\"payload\": " \o JsonStr(m.payload)
               \o ", \"sourceUrl\": " \o JsonStr(m.sourceUrl)
               \o ", \"sourceUrlValidUntil\": " \o JsonStr(m.sourceUrlValidUntil)
               \o "}"

\* The keyword arguments create_media_assets builds for one item
CreateData(media_asset) ==
    LET data == Dict(media_asset.base)
        src == IF \E m \in media_asset.media : Truthy(m.sourceUrl)
               THEN LET m == CHOOSE x \in media_asset.media : TRUE
                    IN  [sourceUrl |-> m.sourceUrl,
                         sourceUrlValidFrom |-> m.sourceUrlValidUntil,
                         sourceUrlValidUntil |-> m.sourceUrlValidUntil]
               ELSE Empty
    IN  data @@ src @@ [media |-> Dumps(media_asset.media)]

\* Variant: no transaction, each statement of the session is kept
RollbackKeepsWrites(c, status) ==
    /\ store' = Flush(store, nextId, session[c], 1).tbl
    /\ pc' = [pc EXCEPT ![c] = "done"]
    /\ session' = [session EXCEPT ![c] = <<>>]
    /\ idx' = [idx EXCEPT ![c] = 0]
    /\ resp' = [resp EXCEPT ![c] = Response(status, <<>>)]

\* What a failed db_session leaves behind: nothing of the session
Rollback(c, status) ==
    /\ store' = store
    /\ pc' = [pc EXCEPT ![c] = "done"]
    /\ session' = [session EXCEPT ![c] = <<>>]
    /\ idx' = [idx EXCEPT ![c] = 0]
    /\ resp' = [resp EXCEPT ![c] = Response(status, <<>>)]

\* POST /media/: gate and body validation, then the handler is entered
create_begin(c, raws, maxn) ==
    /\ pc[c] = "idle"
    /\ \E key \in Keys, n \in 1..maxn : \E body \in [1..n -> raws] :
         /\ is_authenticated(key, API_KEY) = 0
         /\ nextId + n - 1 <= MaxId
         /\ req' = [req EXCEPT ![c] = [method |-> "POST", key |-> key, body |-> body]]
         /\ IF \E k \in 1..n : ~CreateValid(body[k])
            THEN /\ resp' = [resp EXCEPT ![c] = Response(422, <<>>)]
                 /\ pc' = [pc EXCEPT ![c] = "done"]
                 /\ UNCHANGED <<idx, session>>
            ELSE /\ pc' = [pc EXCEPT ![c] = "create"]
                 /\ idx' = [idx EXCEPT ![c] = 1]
                 /\ session' = [session EXCEPT ![c] = <<>>]
                 /\ resp' = [resp EXCEPT ![c] = NoResp]
    /\ UNCHANGED <<API_KEY, store, nextId>>

\* One iteration of create_media_assets' loop
create_item(c) ==
    /\ pc[c] = "create"
    /\ idx[c] <= Len(req[c].body)
    /\ \E now \in Times :
         LET media_asset == MediaAssetCreateModel(req[c].body[idx[c]])
             data == CreateData(media_asset)
         IN  IF KwargsRaise(data) \/ UniqueTaken(Live(session[c]), data.gtin)
             THEN Rollback(c, 400)
             ELSE /\ session' = [session EXCEPT ![c] =
                        Append(@, [st |-> "created", orig |-> MediaAsset(data, now),
                                   obj |-> MediaAsset(data, now)])]
                  /\ idx' = [idx EXCEPT ![c] = @ + 1]
                  /\ UNCHANGED <<store, pc, resp>>
    /\ UNCHANGED <<API_KEY, nextId, req>>

\* Variant: a failed flush keeps the statements that preceded the failure
CommitKeepsPartial(c, okStatus, okBody, errStatus) ==
    LET f == Flush(store, nextId, session[c], 1) IN
      /\ nextId' = f.nid
      /\ store' = f.tbl
      /\ pc' = [pc EXCEPT ![c] = "done"]
      /\ session' = [session EXCEPT ![c] = <<>>]
      /\ idx' = [idx EXCEPT ![c] = 0]
      /\ resp' = [resp EXCEPT ![c] =
            IF f.ok THEN Response(okStatus, okBody) ELSE Response(errStatus, <<>>)]

\* Leaving `with db_session` normally: flush and commit; if the flush
\* fails the transaction is rolled back and the error leaves the block
Commit(c, okStatus, okBody, errStatus) ==
    LET f == Flush(store, nextId, session[c], 1) IN
      /\ nextId' = f.nid
      /\ IF f.ok
         THEN /\ store' = f.tbl
              /\ pc' = [pc EXCEPT ![c] = "done"]
              /\ session' = [session EXCEPT ![c] = <<>>]
              /\ idx' = [idx EXCEPT ![c] = 0]
              /\ resp' = [resp EXCEPT ![c] = Response(okStatus, okBody)]
         ELSE Rollback(c, errStatus)

\* The list a 202 echoes, through response_model
EchoCreate(body) ==
    [k \in DOMAIN body |->
        MediaAssetResponseModel(MediaAssetCreateModel(body[k]).base)]

EchoUpdate(body) ==
    [k \in DOMAIN body |-> MediaAssetResponseModel(BaseModel(body[k]))]

\* End of create_media_assets: the except clause turns a failed commit
\* into 400
create_commit(c) ==
    /\ pc[c] = "create"
    /\ idx[c] > Len(req[c].body)
    /\ Commit(c, 202, EchoCreate(req[c].body), 400)
    /\ UNCHANGED <<API_KEY, req>>

\* PATCH /media/: gate and body validation, then the handler is entered
update_begin(c, raws, maxn) ==
    /\ pc[c] = "idle"
    /\ \E key \in Keys, n \in 1..maxn : \E body \in [1..n -> raws] :
         /\ is_authenticated(key, API_KEY) = 0
         /\ req' = [req EXCEPT ![c] = [method |-> "PATCH", key |-> key, body |-> body]]
         /\ IF \E k \in 1..n : ~BaseValid(body[k])
            THEN /\ resp' = [resp EXCEPT ![c] = Response(422, <<>>)]
                 /\ pc' = [pc EXCEPT ![c] = "done"]
                 /\ UNCHANGED <<idx, session>>
            ELSE /\ pc' = [pc EXCEPT ![c] = "update"]
                 /\ idx' = [idx EXCEPT ![c] = 1]
                 /\ session' = [session EXCEPT ![c] = <<>>]
                 /\ resp' = [resp EXCEPT ![c] = NoResp]
    /\ UNCHANGED <<API_KEY, store, nextId>>

\* Variant: a missing record is an error, as in delete_media_asset
SkipMissingRaises(c) == Rollback(c, 404)

\* `if not media_asset_object: continue`
SkipMissing(c) ==
    /\ idx' = [idx EXCEPT ![c] = @ + 1]
    /\ UNCHANGED <<store, pc, session, resp>>

\* One iteration of update_media_assets' loop: get(gtin=...) looks in the
\* session first and then in the table; nothing found: continue; else set.
\* No except clause: an error leaves the db_session (rollback) as a 500.
update_item(c) ==
    /\ pc[c] = "update"
    /\ idx[c] <= Len(req[c].body)
    /\ LET media_asset == BaseModel(req[c].body[idx[c]])
           key == [gtin |-> media_asset.gtin]
           k == CachedAt(session[c], media_asset.gtin)
           rows == Matching(store, key)
       IN  IF KwargsRaise(key) \/ (k = 0 /\ Cardinality(rows) > 1)
           THEN Rollback(c, 500)
           ELSE IF k = 0 /\ rows = {}
           THEN SkipMissing(c)
           ELSE IF KwargsRaise(Dict(media_asset))
           THEN Rollback(c, 500)
           ELSE /\ session' = [session EXCEPT ![c] =
                     IF k # 0
                     THEN [@ EXCEPT ![k].obj = EntitySet(@, Dict(media_asset))]
                     ELSE LET row == CHOOSE r \in rows : TRUE
                          IN  Append(@, [st |-> "loaded", orig |-> row,
                                         obj |-> EntitySet(row, Dict(media_asset))])]
                /\ idx' = [idx EXCEPT ![c] = @ + 1]
                /\ UNCHANGED <<store, pc, resp>>
    /\ UNCHANGED <<API_KEY, nextId, req>>

update_commit(c) ==
    /\ pc[c] = "update"
    /\ idx[c] > Len(req[c].body)
    /\ Commit(c, 202, EchoUpdate(req[c].body), 500)
    /\ UNCHANGED <<API_KEY, req>>

\* DELETE /media/: get(**media_asset.dict()), 404 when nothing is found,
\* else delete(); the row goes at commit
delete_media_asset(c, raws) ==
    /\ pc[c] = "idle"
    /\ \E key \in Keys, raw \in raws :
         /\ is_authenticated(key, API_KEY) = 0
         /\ req' = [req EXCEPT ![c] = [method |-> "DELETE", key |-> key, body |-> raw]]
         /\ LET media_asset == MediaAssetDeleteModel(raw)
                kwargs == Dict(media_asset)
                rows == Matching(store, kwargs)
            IN  IF ~QueryValid(raw)
                THEN /\ resp' = [resp EXCEPT ![c] = Response(422, <<>>)]
                     /\ pc' = [pc EXCEPT ![c] = "done"]
                     /\ UNCHANGED <<idx, session>>
                ELSE IF KwargsRaise(kwargs) \/ Cardinality(rows) > 1
                THEN /\ resp' = [resp EXCEPT ![c] = Response(500, <<>>)]
                     /\ pc' = [pc EXCEPT ![c] = "done"]
                     /\ UNCHANGED <<idx, session>>
                ELSE IF rows = {}
                THEN /\ resp' = [resp EXCEPT ![c] = Response(404, <<>>)]
                     /\ pc' = [pc EXCEPT ![c] = "done"]
                     /\ UNCHANGED <<idx, session>>
                ELSE /\ pc' = [pc EXCEPT ![c] = "delete"]
                     /\ session' = [session EXCEPT ![c] =
                           LET row == CHOOSE r \in rows : TRUE
                           IN  <<[st |-> "deleted", orig |-> row, obj |-> row]>>]
                     /\ resp' = [resp EXCEPT ![c] = NoResp]
                     /\ UNCHANGED idx
    /\ UNCHANGED <<API_KEY, store, nextId>>

delete_commit(c) ==
    /\ pc[c] = "delete"
    /\ Commit(c, 200, <<>>, 500)
    /\ UNCHANGED <<API_KEY, req>>

\* The response has been sent: the request is over
respond(c) ==
    /\ pc[c] = "done"
    /\ pc' = [pc EXCEPT ![c] = "idle"]
    /\ req' = [req EXCEPT ![c] = NoReq]
    /\ resp' = [resp EXCEPT ![c] = NoResp]
    /\ UNCHANGED <<API_KEY, store, nextId, idx, session>>

----------------------------------------------------------------------------
(* Inputs *)

RawBase(g, v) ==
    IF v = "a"
    THEN [gtin |-> g, channel |-> "web", mediaId |-> "m1",
          contentType |-> "image/png", mediaType |-> "MainImage",
          description |-> "da", brand |-> "ba", category |-> "ca",
          status |-> "ML010New", resolutionKey |-> "ORIGINAL",
          resolutionInPx |-> "100x100", hasCopyright |-> "True"]
    ELSE [gtin |-> g, channel |-> "app", mediaId |-> "m2",
          contentType |-> "image/jpeg", mediaType |-> "SwatchImage",
          description |-> "db", brand |-> "bb", category |-> "cb",
          status |-> "ML070QaApproved", resolutionKey |-> "X240",
          resolutionInPx |-> "240x240", hasCopyright |-> "False"]

Omit(raw, fields) == [f \in (DOMAIN raw) \ fields |-> raw[f]]

MediaSource == [sourceUrl |-> "http://u", sourceUrlValidUntil |-> "t9"]
MediaBoth == [payload |-> "p", sourceUrl |-> "http://u"]
MediaPayload == [payload |-> "p"]

CreateRaws ==
    UNION {{ RawBase(g, "a"),
             RawBase(g, "b") @@ [media |-> MediaSource],
             RawBase(g, "a") @@ [media |-> MediaBoth],
             Omit(RawBase(g, "b"), {"status"}) @@ [media |-> MediaPayload] }
           : g \in Gtins}

Queries ==
    {Empty} \cup {[gtin |-> g] : g \in Gtins}
            \cup {[channel |-> "web"], [contentType |-> "image/jpeg"]}
            \cup {[gtin |-> "g1", channel |-> "app"]}
            \cup {[contentType |-> "text/plain"]}

UpdateRaws ==
    { RawBase("g1", "a"), RawBase("g1", "b"), RawBase("g2", "a"),
      RawBase("g2", "b"),
      Omit(RawBase("g1", "a"), {"status"}),
      Omit(RawBase("g2", "b"), {"description"}) }

DeleteKey(g, v) ==
    [f \in DeleteFields |-> RawBase(g, v)[f]]

DeleteRaws ==
    {Empty, [channel |-> "web"], [contentType |-> "text/plain"]}
      \cup UNION {{ [gtin |-> g], DeleteKey(g, "a"), DeleteKey(g, "b") }
                  : g \in Gtins}

Methods == {"GET", "POST", "PATCH", "DELETE"}

Step(c) ==
    \/ Unauthorized(c, Methods)
    \/ get_media_assets(c, Queries)
    \/ create_begin(c, CreateRaws, MaxBatch)
    \/ create_item(c)
    \/ create_commit(c)
    \/ update_begin(c, UpdateRaws, MaxBatch)
    \/ update_item(c)
    \/ update_commit(c)
    \/ delete_media_asset(c, DeleteRaws)
    \/ delete_commit(c)
    \/ respond(c)

Next == \E c \in {1} : Step(c)

Spec == Init /\ [][Next]_vars

\* Two clients whose requests interleave statement by statement
ConcCreateRaws == { RawBase("g1", "a"), RawBase("g2", "a") }

ConcUpdateRaws == { RawBase("g1", "b"), RawBase("g2", "b") }

ConcDeleteRaws == { DeleteKey("g1", "a") }

StepConc(c) ==
    \/ create_begin(c, ConcCreateRaws, MaxConcBatch)
    \/ create_item(c)
    \/ create_commit(c)
    \/ update_begin(c, ConcUpdateRaws, MaxConcBatch)
    \/ update_item(c)
    \/ update_commit(c)
    \/ delete_media_asset(c, ConcDeleteRaws)
    \/ delete_commit(c)
    \/ respond(c)

NextConc == \E c \in Clients : StepConc(c)

SpecConc == Init /\ [][NextConc]_vars


----------------------------------------------------------------------------
(* Properties *)

Handlers == {"create", "update", "delete"}

\* Some item repeats a stored gtin or the gtin of an earlier item
HasDuplicate(rows, body) ==
    \E k \in DOMAIN body :
        \/ UniqueTaken(rows, body[k].gtin)
        \/ \E j \in 1..(k - 1) : body[j].gtin = body[k].gtin

\* Media sub-object with a non-empty payload and a source reference
Conflicting(raw) ==
    /\ "media" \in DOMAIN raw
    /\ Truthy(Field(raw.media, "payload"))
    /\ \/ Truthy(Field(raw.media, "sourceUrl"))
       \/ Truthy(Field(raw.media, "sourceUrlValidUntil"))

\* C1: a POST batch holding a gtin that is already stored, or that repeats
\* a gtin of an earlier item, changes nothing in the store at any of its
\* steps and is answered 400.
C1_DuplicateGtinFailsWholeBatch ==
    [][\A c \in Clients :
         (pc[c] = "create" /\ HasDuplicate(store, req[c].body))
            => /\ store' = store
               /\ (pc'[c] = "done" => resp'[c].status = 400)]_vars

\* C1 case: the second item repeats a stored gtin, the first one was new
\* and valid; the request ended 400 and the first item is not stored.
C1_Witness ==
    /\ pc[1] = "done" /\ req[1].method = "POST" /\ resp[1].status = 400
    /\ req[1].body = <<RawBase("g2", "a"), RawBase("g1", "a")>>
    /\ UniqueTaken(store, "g1") /\ ~UniqueTaken(store, "g2")

\* C2: a POST item whose media has a non-empty payload together with a
\* sourceUrl or sourceUrlValidUntil is refused by validation (422) and the
\* handler is never entered for that request.
C2_ConflictingMediaRejected ==
    \A c \in Clients :
        (req[c].method = "POST" /\ pc[c] \in {"create", "done"}
           /\ \E k \in DOMAIN req[c].body : Conflicting(req[c].body[k]))
        => (pc[c] = "done" /\ resp[c].status = 422)

C4_DeleteBySuppliedFields ==
    \A c \in Clients :
        (pc[c] = "done" /\ req[c].method = "DELETE"
           /\ resp[c].status \notin {200, 401, 403})
        => Cardinality(Matching(store, req[c].body)) # 1

\* C5: no two stored records have the same gtin.
C5_GtinUnique ==
    \A r1 \in store, r2 \in store : r1.gtin = r2.gtin => r1 = r2

\* C5 case: two POSTs with the same gtin were in progress together; one
\* was stored and the other failed.
C5_Witness ==
    /\ pc[1] = "done" /\ pc[2] = "done"
    /\ req[1].method = "POST" /\ req[2].method = "POST"
    /\ req[1].body[1].gtin = req[2].body[1].gtin
    /\ resp[1].status = 202 /\ resp[2].status = 400
    /\ UniqueTaken(store, req[1].body[1].gtin)

\* C6: a POST whose items are all accepted by the creation model and whose
\* gtins are new succeeds with 202 (a POST answered otherwise left the
\* store as it was).
C6_AcceptedItemIsCreated ==
    \A c \in Clients :
        (pc[c] = "done" /\ req[c].method = "POST"
           /\ resp[c].status \notin {202, 401, 403}
           /\ \A k \in DOMAIN req[c].body : CreateValid(req[c].body[k]))
        => HasDuplicate(store, req[c].body)

\* The table after a PATCH batch: each item rewrites the base fields of the
\* record carrying its gtin, if there is one
RECURSIVE PatchedStore(_, _, _)
PatchedStore(tbl, body, k) ==
    IF k > Len(body) THEN tbl
    ELSE PatchedStore(
           {IF r.gtin = body[k].gtin
            THEN [a \in DOMAIN r |->
                    IF a \in BaseFields THEN Field(body[k], a) ELSE r[a]]
            ELSE r : r \in tbl},
           body, k + 1)

\* C7: a PATCH item whose gtin matches no stored record changes nothing and
\* raises nothing, the loop goes on; the request that reaches its end is
\* answered 202 with the whole submitted list, and the store is the old
\* one with the matching items applied.
C7_MissingItemIsSkipped ==
    [][\A c \in Clients :
         pc[c] = "update" =>
           /\ (idx[c] <= Len(req[c].body)
                 /\ ~UniqueTaken(store, req[c].body[idx[c]].gtin))
                => /\ pc'[c] = "update" /\ idx'[c] = idx[c] + 1
                   /\ session'[c] = session[c] /\ store' = store
           /\ idx[c] > Len(req[c].body)
                => /\ resp'[c].status = 202
                   /\ resp'[c].body =
                        [k \in DOMAIN req[c].body |-> BaseModel(req[c].body[k])]
                   /\ store' = PatchedStore(store, req[c].body, 1)]_vars

\* C7 case: the first item had no record, the second one rewrote a record
\* that had been created with other values and no source reference.
C7_Witness ==
    /\ pc[1] = "done" /\ req[1].method = "PATCH" /\ resp[1].status = 202
    /\ req[1].body = <<RawBase("g2", "a"), RawBase("g1", "b")>>
    /\ ~UniqueTaken(store, "g2")
    /\ \E r \in store : r.gtin = "g1" /\ r.channel = "app" /\ r.sourceUrl = ""

\* C8: a GET that passes the gate and whose query respects the literal
\* sets answers 200 with exactly the stored records that equal the query
\* on every field supplied with a value, and leaves the store as it was.
C8_ListIsFilteredStore ==
    [][\A c \in Clients :
         (pc[c] = "idle" /\ pc'[c] = "done" /\ req'[c].method = "GET"
            /\ resp'[c].status \notin {401, 403}
            /\ Field(req'[c].body, "contentType") \in ContentTypes \cup {None})
         => /\ store' = store
            /\ resp'[c].status = 200
            /\ resp'[c].body =
                 {[f \in BaseFields |-> r[f]] :
                    r \in {x \in store :
                            \A f \in QueryFields :
                               Field(req'[c].body, f) # None
                                 => x[f] = req'[c].body[f]}}]_vars

\* C8 case: two records stored, the query by gtin returned one of them.
C8_Witness ==
    /\ pc[1] = "done" /\ req[1].method = "GET" /\ resp[1].status = 200
    /\ req[1].body = [gtin |-> "g1"]
    /\ Cardinality(store) = 2 /\ Cardinality(resp[1].body) = 1

\* C9 as stated: after a successful PATCH, every item whose gtin matches a
\* stored record finds each field it supplied on that record.
C9_EveryItemHolds ==
    \A c \in Clients :
        (pc[c] = "done" /\ req[c].method = "PATCH" /\ resp[c].status = 202)
        => \A k \in DOMAIN req[c].body : \A r \in store :
              r.gtin = req[c].body[k].gtin
                => \A a \in DOMAIN req[c].body[k] : r[a] = req[c].body[k][a]

LastFor(body, g) ==
    CHOOSE k \in DOMAIN body :
        /\ body[k].gtin = g
        /\ \A j \in DOMAIN body : body[j].gtin = g => j <= k

\* C9 amended: after a successful PATCH, a stored record whose gtin is
\* carried by some item holds each field supplied by the last such item of
\* the batch and keeps every other field (media, sizeInBytes, license and
\* sourceUrl fields, id); records whose gtin no item carries are unchanged,
\* and no record is added or removed.
C9_LastItemHoldsOthersKept ==
    [][\A c \in Clients :
         (pc[c] = "update" /\ pc'[c] = "done" /\ resp'[c].status = 202)
         => /\ Cardinality(store') = Cardinality(store)
            /\ \A r \in store :
                 IF \E k \in DOMAIN req[c].body : req[c].body[k].gtin = r.gtin
                 THEN LET item == req[c].body[LastFor(req[c].body, r.gtin)]
                      IN  \E r2 \in store' :
                            /\ r2.id = r.id
                            /\ \A a \in DOMAIN item : r2[a] = item[a]
                            /\ \A a \in (DOMAIN r) \ (DOMAIN item) : r2[a] = r[a]
                 ELSE r \in store']_vars

\* C9 case: a record created with payload and source reference was
\* rewritten by a PATCH and still carries its media and sourceUrl.
C9_Witness ==
    /\ pc[1] = "done" /\ req[1].method = "PATCH" /\ resp[1].status = 202
    /\ req[1].body = <<RawBase("g1", "b")>>
    /\ \E r \in store :
          /\ r.gtin = "g1" /\ r.channel = "app"
          /\ r.media = Dumps({MediaModel(MediaBoth)})
          /\ r.sourceUrl = "http://u"

\* C10: a handler's statements reach the store only when its db_session
\* is left normally, all at once; a handler that ends in an error leaves
\* the store as it was before the request.
C10_SessionCommitsOrRollsBack ==
    [][\A c \in Clients :
         pc[c] \in Handlers =>
           /\ pc'[c] # "done" => store' = store
           /\ (pc'[c] = "done" /\ resp'[c].status \notin {200, 202})
                => store' = store
           /\ (pc'[c] = "done" /\ resp'[c].status \in {200, 202})
                => store' = Flush(store, nextId, session[c], 1).tbl]_vars

\* C10 case: the first item of a PATCH rewrote a stored record, the second
\* one raised; the first record still has its old values.
C10_Witness ==
    /\ pc[1] = "done" /\ req[1].method = "PATCH" /\ resp[1].status = 500
    /\ req[1].body = <<RawBase("g2", "b"), Omit(RawBase("g1", "a"), {"status"})>>
    /\ UniqueTaken(store, "g1")
    /\ \E r \in store : r.gtin = "g2" /\ r.channel = "web"

============================================================================
